---- MODULE Spec2Model ----
(***************************************************************************)
(* A model of gigapath/slide_encoder.py: the LongNetViT slide encoder, its *)
(* position indexer and position table, the Self-Fusion and Cross-Fusion   *)
(* blocks, and the construction / checkpoint-loading life cycle.           *)
(*                                                                         *)
(* Tensors are modelled for a batch of one slide (N = 1) as a length and a *)
(* symbolic value: a term that records which module produced the tensor    *)
(* from which inputs.  Masks, coordinates and position indices are real    *)
(* sequences of numbers.  Floating point "not a number" is the term NaN    *)
(* and is absorbing, as in IEEE arithmetic.  Coordinates are integers, for *)
(* which floor(x / s) in floating point is the integer floor division.     *)
(***************************************************************************)
EXTENDS Integers, Sequences, FiniteSets, TLC

VARIABLES
    kwargs,   \* the construction configuration handed to LongNetViT.__init__
    self,     \* the encoder object: attributes, buffers, parameters, mode
    self0,    \* the encoder object as it was when the constructor returned
    phase,    \* where the object is in its life cycle
    rng,      \* the state of the global random generator (dropout, drop path)
    heap,     \* the callers' tensors, by tensor set
    heap0,    \* the callers' tensors as they were before any call
    ref,      \* ref[c]: the tensor set forward call c was handed
    frame     \* frame[c]: the local variables and position of forward call c

vars == <<kwargs, self, self0, phase, rng, heap, heap0, ref, frame>>

----------------------------------------------------------------------------
\* Bounds of the model.

\* slide_ngrids (G): the grid has NGrids x NGrids cells.
NGrids == 2
\* Largest number of query tokens Q.
MaxQ == 2
\* Largest number of instruction tokens I.
MaxI == 2
\* Largest number of tiles L of a slide.
MaxTiles == 2
\* Largest num_layers.
MaxLayers == 2
\* The random generator's states are 0 .. RngPeriod - 1.
RngPeriod == 4

\* forward's default for patch_size.
DefaultPatchSize == 256

Calls == {1, 2}

\* The tile sizes a configuration may name and the cell sizes a call may pass.
TileSizes == {DefaultPatchSize, 2 * DefaultPatchSize}

\* Physical coordinates: every half cell from one cell below the grid to one
\* cell above it (at the default cell size).
CoordVals == { k * (DefaultPatchSize \div 2) : k \in -1 .. (2 * NGrids + 1) }

----------------------------------------------------------------------------
\* Optional arguments, None included.

NoArg == [given |-> FALSE, v |-> <<>>]

Given(x) == [given |-> TRUE, v |-> x]

\* Symbolic values.

NaN == <<"nan">>

Tensor(n, v) == [len |-> n, val |-> v]

\* A caller's tensor of n tokens.
In(name, id, n) == Tensor(n, <<"in", name, id>>)

\* An operation's result on the operands ops: NaN as soon as one operand is NaN.
Tm(tag, ops, p) ==
    IF \E j \in 1 .. Len(ops) : ops[j] = NaN THEN NaN ELSE <<tag, ops, p>>

\* torch.bfloat16 rounding of a value; rounding a rounded value changes nothing.
ToBF16(v) == IF v = NaN THEN NaN ELSE IF v[1] = "bf16" THEN v ELSE <<"bf16", v>>

Add(a, b) == Tensor(a.len, Tm("add", <<a.val, b.val>>, <<>>))

\* nn.Dropout: the identity in evaluation mode (no noise drawn).
Dropout(x, noise) ==
    IF noise.given THEN Tensor(x.len, Tm("dropout", <<x.val>>, noise)) ELSE x

\* timm's DropPath: the identity in evaluation mode.
DropPath(x, noise) ==
    IF noise.given THEN Tensor(x.len, Tm("drop_path", <<x.val>>, noise)) ELSE x

LayerNorm(p, x) == Tensor(x.len, Tm("norm", <<x.val>>, p))

Mlp(p, x, noise) == Tensor(x.len, Tm("ffn", <<x.val>>, <<p, noise>>))

\* torch.cat((a, b), dim=1)
Cat(a, b) == Tensor(a.len + b.len, Tm("cat", <<a.val, b.val>>, a.len))

\* x[:, :n, :]
Slice(x, n) ==
    Tensor(IF n < x.len THEN n ELSE x.len, Tm("slice", <<x.val>>, n))

\* torch.ones((N, n)) for N = 1.
Ones(n) == [p \in 1 .. n |-> 1]

AllTrue(m) == \A p \in 1 .. Len(m) : m[p]

\* nn.MultiheadAttention: key_padding_mask is True where a key is excluded
\* from attention.  The softmax of a row whose keys are all excluded is 0 / 0.
MultiheadAttention(p, q, k, v, key_padding_mask, noise) ==
    IF key_padding_mask.given /\ AllTrue(key_padding_mask.v)
    THEN Tensor(q.len, NaN)
    ELSE Tensor(q.len,
                Tm("attn", <<q.val, k.val, v.val>>, <<key_padding_mask, noise, p>>))

\* LayerScale.forward with inplace = False: a new tensor x * gamma.
LayerScale(p, x) == Tensor(x.len, Tm("mul", <<x.val>>, <<"gamma", p>>))

\* The mask inversion of TransformerBlock.forward with the test negated.
KeyPaddingMaskNonZero(attention_mask) ==
    IF attention_mask.given
    THEN Given([p \in 1 .. Len(attention_mask.v) |-> attention_mask.v[p] # 0])
    ELSE NoArg

\* attention_mask = (attention_mask == 0) if attention_mask is not None else None
KeyPaddingMask(attention_mask) ==
    IF attention_mask.given
    THEN Given([p \in 1 .. Len(attention_mask.v) |-> attention_mask.v[p] = 0])
    ELSE NoArg

\* TransformerBlock is built with its default pre_norm.
PreNorm == TRUE

\* TransformerBlock.forward
TransformerBlock(p, x, attention_mask, noise) ==
    LET kpm == KeyPaddingMask(attention_mask)
    IN  IF PreNorm
        THEN LET x_norm == LayerNorm(<<p, "norm1">>, x)
                 attn_output ==
                     MultiheadAttention(<<p, "attention">>, x_norm, x_norm, x_norm, kpm, noise)
                 x1 == Add(x, DropPath(LayerScale(<<p, "layerscale1">>, attn_output), noise))
                 ffn_output == Mlp(<<p, "ffn">>, LayerNorm(<<p, "norm2">>, x1), noise)
             IN  Add(x1, DropPath(LayerScale(<<p, "layerscale2">>, ffn_output), noise))
        ELSE LET attn_output ==
                     MultiheadAttention(<<p, "attention">>, x, x, x, kpm, noise)
                 x1 == Add(x, DropPath(LayerScale(<<p, "layerscale1">>,
                                  LayerNorm(<<p, "norm1">>, attn_output)), noise))
                 ffn_output == Mlp(<<p, "ffn">>, x1, noise)
             IN  Add(x1, DropPath(LayerScale(<<p, "layerscale2">>,
                                  LayerNorm(<<p, "norm2">>, ffn_output)), noise))

\* CrossAttention.forward
CrossAttention(p, query, key, value, key_padding_mask, noise) ==
    LET attn_output ==
            MultiheadAttention(<<p, "attn">>, query, key, value, key_padding_mask, noise)
    IN  LayerNorm(<<p, "norm">>, Add(query, Dropout(attn_output, noise)))

\* The LongNet context encoder: tokens of the same shape as its input.
LongNetEncoder(p, token_embeddings, encoder_padding_mask, noise) ==
    Tensor(token_embeddings.len,
           Tm("encoder_out", <<token_embeddings.val>>, <<encoder_padding_mask, noise, p>>))

----------------------------------------------------------------------------
\* The position indexer and the position table.

\* The flattening of coords_to_pos with rows and columns exchanged.
FlatIndexTransposed(row, col, ngrids) == col * ngrids + row

\* pos = coords_[..., 0] * self.slide_ngrids + coords_[..., 1]
FlatIndex(row, col, ngrids) == row * ngrids + col

\* coords_ = torch.floor(coords / patch_size), for one coordinate
Quantize(x, patch_size) == x \div patch_size

\* LongNetViT.coords_to_pos, for the L coordinate pairs of one slide
coords_to_pos(ngrids, coords, patch_size) ==
    [t \in 1 .. Len(coords) |->
        FlatIndex(Quantize(coords[t][1], patch_size),
                  Quantize(coords[t][2], patch_size), ngrids)]

\* get_2d_sincos_pos_embed: one deterministic vector per grid cell
SinCosPosEmbed(ngrids) ==
    [k \in 0 .. (ngrids * ngrids - 1) |-> <<"sincos", k \div ngrids, k % ngrids>>]

\* Indexing a dimension of n entries: -n .. n-1 are in range, a negative
\* index counts from the end.
IndexInRange(n, k) == -n <= k /\ k < n

Normalized(n, k) == IF k < 0 THEN k + n ELSE k

TableSize(table) == Cardinality(DOMAIN table)

\* self.pos_embed[:, pos, :].squeeze(0)
Gather(table, pos) ==
    Tensor(Len(pos),
           <<"gather", [t \in 1 .. Len(pos) |-> table[Normalized(TableSize(table), pos[t])]]>>)

\* contexts += self.pos_embed[:, pos, :]: the sum written into the caller's tensor.
EmbedPatchesInPlace(table, contexts_arg, pos) ==
    [contexts        |-> Add(contexts_arg, Gather(table, pos)),
     caller_contexts |-> Add(contexts_arg, Gather(table, pos)),
     pos_embed       |-> table]

\* self.pos_embed[:, pos, :] += contexts: the sum written into the table rows.
EmbedPatchesIntoTable(table, contexts_arg, pos) ==
    LET n    == TableSize(table)
        hit  == {Normalized(n, pos[t]) : t \in 1 .. Len(pos)}
        into == [k \in DOMAIN table |->
                    IF k \in hit THEN Tm("add", <<table[k], contexts_arg.val>>, <<>>)
                    ELSE table[k]]
    IN  [contexts        |-> Add(contexts_arg, Gather(table, pos)),
         caller_contexts |-> contexts_arg,
         pos_embed       |-> into]

\* contexts = contexts + self.pos_embed[:, pos, :].squeeze(0): the new local
\* tensor, and the caller's tensor and the buffer as the statement leaves them.
EmbedPatches(table, contexts_arg, pos) ==
    [contexts        |-> Add(contexts_arg, Gather(table, pos)),
     caller_contexts |-> contexts_arg,
     pos_embed       |-> table]

----------------------------------------------------------------------------
\* The encoder object.

ModuleLists == {"encoder_wsi", "self_attention", "cross_attention"}

\* LongNetViT.__init__ with initialize_vit_weights: the object it leaves.
\* tile_size and max_wsi_size are accepted and not stored.
LongNetViT(kw) ==
    [slide_ngrids |-> kw.slide_ngrids,
     num_layers   |-> kw.num_layers,
     pos_embed    |-> SinCosPosEmbed(kw.slide_ngrids),
     weights      |-> [m \in ModuleLists |-> "init"],
     dtype        |-> "float32",
     training     |-> TRUE]

\* The parameters of module list m of object obj at layer index idx.
ParamsOf(obj, m, idx) == <<m, idx, obj.weights[m], obj.dtype>>

\* self.<m>[idx], as it is now.
Params(m, idx) == ParamsOf(self, m, idx)

----------------------------------------------------------------------------
\* One forward call: its frame.

Undefined == Tensor(0, <<"undefined">>)

IdleFrame ==
    [pc |-> "idle", i |-> 0, query_length |-> 0, self_attention_mask |-> NoArg,
     pos |-> <<>>, contexts |-> Undefined, querys |-> NoArg,
     result |-> Undefined, log |-> <<>>]

StartFrame == [IdleFrame EXCEPT !.pc = "mask"]

\* The arguments of call c: the caller's tensors as they are now.
Args(c) == heap[ref[c]]

\* The local name querys: the caller's tensor until line 263 rebinds it.
Querys(c) == IF frame[c].querys.given THEN frame[c].querys.v ELSE Args(c).querys

\* patch_size as forward sees it: the argument, or the default 256.0.
PatchSize(c) ==
    IF Args(c).patch_size.given THEN Args(c).patch_size.v ELSE DefaultPatchSize

\* The loop bound off by one: range(self.num_layers + 1).
LoopPcInclusive(i) == IF i <= self.num_layers THEN "encoder_wsi" ELSE "return"

\* range(self.num_layers): the body runs again while i < num_layers.
LoopPc(i) == IF i < self.num_layers THEN "encoder_wsi" ELSE "return"

\* The noise a stochastic module draws: none in evaluation mode.
Noise == IF self.training THEN Given(rng) ELSE NoArg

Draw == rng' = IF self.training THEN (rng + 1) % RngPeriod ELSE rng

\* The mask for self attention with the query part filled with zeros.
SelfAttentionMaskZeros(querys_len, mask) ==
    IF mask.given
    THEN Given([p \in 1 .. querys_len |-> 0] \o mask.v)
    ELSE NoArg

\* Lines 245-248: ones for the query positions, then the caller's mask.
SelfAttentionMask(querys_len, mask) ==
    IF mask.given
    THEN Given(Ones(querys_len) \o mask.v)
    ELSE NoArg

\* Lines 243-248
BuildMask(c) ==
    /\ phase = "ready"
    /\ frame[c].pc = "mask"
    /\ frame' = [frame EXCEPT ![c] =
            [@ EXCEPT !.pc = "pos",
                      !.query_length = Args(c).querys.len,
                      !.self_attention_mask =
                          SelfAttentionMask(Args(c).querys.len, Args(c).self_attention_mask)]]
    /\ UNCHANGED <<kwargs, self, self0, phase, rng, heap, heap0, ref>>

\* Line 252
CoordsToPos(c) ==
    /\ phase = "ready"
    /\ frame[c].pc = "pos"
    /\ frame' = [frame EXCEPT ![c] =
            [@ EXCEPT !.pc = "embed",
                      !.pos = coords_to_pos(self.slide_ngrids, Args(c).coords, PatchSize(c))]]
    /\ UNCHANGED <<kwargs, self, self0, phase, rng, heap, heap0, ref>>

\* Line 253: an index outside the table raises IndexError and ends the call.
EmbedPatchesStep(c) ==
    /\ phase = "ready"
    /\ frame[c].pc = "embed"
    /\ LET pos == frame[c].pos
           n   == TableSize(self.pos_embed)
       IN  IF \A t \in 1 .. Len(pos) : IndexInRange(n, pos[t])
           THEN LET e == EmbedPatches(self.pos_embed, Args(c).contexts, pos)
                IN  /\ frame' = [frame EXCEPT ![c] =
                            [@ EXCEPT !.pc = LoopPc(0), !.i = 0, !.contexts = e.contexts]]
                    /\ heap' = [heap EXCEPT ![ref[c]].contexts = e.caller_contexts]
                    /\ self' = [self EXCEPT !.pos_embed = e.pos_embed]
           ELSE /\ frame' = [frame EXCEPT ![c] = [@ EXCEPT !.pc = "error"]]
                /\ UNCHANGED <<heap, self>>
    /\ UNCHANGED <<kwargs, self0, phase, rng, heap0, ref>>

\* Line 259
EncoderWsi(c) ==
    /\ phase = "ready"
    /\ frame[c].pc = "encoder_wsi"
    /\ LET f   == frame[c]
           out == LongNetEncoder(Params("encoder_wsi", f.i), f.contexts,
                                 Args(c).key_padding_mask, Noise)
       IN  frame' = [frame EXCEPT ![c] =
               [@ EXCEPT !.pc = "self_attention",
                         !.contexts = out,
                         !.log = Append(@, [mod |-> "encoder_wsi", idx |-> f.i,
                                            x |-> f.contexts,
                                            key |-> Undefined, value |-> Undefined,
                                            attention_mask |-> NoArg,
                                            key_padding_mask |-> Args(c).key_padding_mask,
                                            out |-> out])]]
    /\ Draw
    /\ UNCHANGED <<kwargs, self, self0, phase, heap, heap0, ref>>

\* The tail of the last Self-Fusion output: the fused instruction positions.
FusedInstructs(c) ==
    LET log == frame[c].log
        ks  == {k \in 1 .. Len(log) : log[k].mod = "self_attention"}
    IN  IF ks = {}
        THEN Args(c).instructs
        ELSE LET k == CHOOSE k \in ks : \A j \in ks : j <= k
             IN  Tensor(log[k].out.len - frame[c].query_length,
                        Tm("tail", <<log[k].out.val>>, frame[c].query_length))

\* The instruction tensor line 261 concatenates: the caller's, as it is now.
Instructs(c) == Args(c).instructs

\* Lines 261-263: the block runs on [querys ; instructs]; the first
\* query_length positions of its output are the new querys.
SelfAttention(c) ==
    /\ phase = "ready"
    /\ frame[c].pc = "self_attention"
    /\ LET f   == frame[c]
           combined_querys == Cat(Querys(c), Instructs(c))
           self_attn_output ==
               TransformerBlock(Params("self_attention", f.i), combined_querys,
                                f.self_attention_mask, Noise)
       IN  frame' = [frame EXCEPT ![c] =
               [@ EXCEPT !.pc = "cross_attention",
                         !.querys = Given(Slice(self_attn_output, f.query_length)),
                         !.log = Append(@, [mod |-> "self_attention", idx |-> f.i,
                                            x |-> combined_querys,
                                            key |-> Undefined, value |-> Undefined,
                                            attention_mask |-> f.self_attention_mask,
                                            key_padding_mask |->
                                                KeyPaddingMask(f.self_attention_mask),
                                            out |-> self_attn_output])]]
    /\ Draw
    /\ UNCHANGED <<kwargs, self, self0, phase, heap, heap0, ref>>

\* Line 266, and the loop's next turn
CrossAttentionStep(c) ==
    /\ phase = "ready"
    /\ frame[c].pc = "cross_attention"
    /\ LET f   == frame[c]
           out == CrossAttention(Params("cross_attention", f.i), Querys(c),
                                 f.contexts, f.contexts, Args(c).key_padding_mask, Noise)
       IN  frame' = [frame EXCEPT ![c] =
               [@ EXCEPT !.pc = LoopPc(f.i + 1),
                         !.i = f.i + 1,
                         !.querys = Given(out),
                         !.log = Append(@, [mod |-> "cross_attention", idx |-> f.i,
                                            x |-> Querys(c),
                                            key |-> f.contexts, value |-> f.contexts,
                                            attention_mask |-> NoArg,
                                            key_padding_mask |-> Args(c).key_padding_mask,
                                            out |-> out])]]
    /\ Draw
    /\ UNCHANGED <<kwargs, self, self0, phase, heap, heap0, ref>>

\* Line 268
Return(c) ==
    /\ phase = "ready"
    /\ frame[c].pc = "return"
    /\ frame' = [frame EXCEPT ![c] =
            [@ EXCEPT !.pc = "done",
                      !.result = Tensor(Querys(c).len, ToBF16(Querys(c).val))]]
    /\ UNCHANGED <<kwargs, self, self0, phase, rng, heap, heap0, ref>>

\* LongNetViT.forward, one step of call c
forward(c) ==
    \/ BuildMask(c)
    \/ CoordsToPos(c)
    \/ EmbedPatchesStep(c)
    \/ EncoderWsi(c)
    \/ SelfAttention(c)
    \/ CrossAttentionStep(c)
    \/ Return(c)

----------------------------------------------------------------------------
\* The life cycle after the constructor: the registered factory, create_model.

\* Line 318: .to(torch.bfloat16) rounds every floating point parameter and buffer.
gigapath_slide_enc2l512d ==
    /\ phase = "constructed"
    /\ phase' = "factory"
    /\ self' = [self EXCEPT !.pos_embed = [k \in DOMAIN @ |-> ToBF16(@[k])],
                            !.dtype = "bfloat16"]
    /\ UNCHANGED <<kwargs, self0, rng, heap, heap0, ref, frame>>

\* A table a checkpoint may hold for a grid of g x g cells.
CkptPosEmbed(g) == [k \in 0 .. (g * g - 1) |-> <<"ckpt", k>>]

\* The checkpoints create_model may find: none, or a state dict with some of
\* the model's entries.
Checkpoints ==
    { [exists |-> ex, keys |-> ks, pos_embed |-> t] :
        ex \in BOOLEAN,
        ks \in SUBSET {"pos_embed", "self_attention"},
        t \in {SinCosPosEmbed(NGrids), CkptPosEmbed(NGrids), CkptPosEmbed(NGrids + 1)} }

\* copy_ into a tensor of the module's dtype.
CastTo(dtype, v) == IF dtype = "bfloat16" THEN ToBF16(v) ELSE v

\* model.load_state_dict(state_dict, strict=False) on the object obj: entries
\* present on both sides are copied; a size mismatch raises.
LoadStateDict(obj, ckpt) ==
    LET mismatch == /\ "pos_embed" \in ckpt.keys
                    /\ TableSize(ckpt.pos_embed) # TableSize(obj.pos_embed)
        loaded == [obj EXCEPT
                     !.weights = [m \in ModuleLists |->
                                     IF m \in ckpt.keys THEN "ckpt" ELSE @[m]],
                     !.pos_embed =
                         IF "pos_embed" \in ckpt.keys /\ ~mismatch
                         THEN [k \in DOMAIN @ |-> CastTo(obj.dtype, ckpt.pos_embed[k])]
                         ELSE @]
    IN  [raised |-> mismatch, obj |-> loaded]

\* Lines 297-313: the checkpoint is applied when its file exists.
create_model ==
    /\ phase = "factory"
    /\ \E ckpt \in Checkpoints :
          IF ckpt.exists
          THEN LET r == LoadStateDict(self, ckpt)
               IN  /\ self' = r.obj
                   /\ phase' = IF r.raised THEN "load_error" ELSE "ready"
          ELSE /\ self' = self
               /\ phase' = "ready"
    /\ UNCHANGED <<kwargs, self0, rng, heap, heap0, ref, frame>>

----------------------------------------------------------------------------
\* Initial states.

Bits(n) == [1 .. n -> {0, 1}]

\* The instruction masks a caller may pass for n instruction tokens.
InstructionMasks(n) == {NoArg} \cup {Given(m) : m \in Bits(n)}

\* The context padding masks a caller may pass for n tiles.
PaddingMasks(n) == {NoArg} \cup {Given(m) : m \in [1 .. n -> BOOLEAN]}

\* The tensor sets a caller may hand to forward.
TensorSets(ids, Qs, Is, Ls, pairs, patch_sizes, withMasks) ==
    UNION { UNION { UNION {
        { [querys |-> In("querys", id, q),
           contexts |-> In("contexts", id, l),
           instructs |-> In("instructs", id, n),
           coords |-> cs,
           patch_size |-> ps,
           self_attention_mask |-> sm,
           key_padding_mask |-> km] :
            id \in ids, cs \in [1 .. l -> pairs], ps \in patch_sizes,
            sm \in IF withMasks THEN InstructionMasks(n) ELSE {NoArg},
            km \in IF withMasks THEN PaddingMasks(l) ELSE {NoArg} }
        : l \in Ls } : n \in Is } : q \in Qs }

Configs(tile_sizes, layers) ==
    { [slide_ngrids |-> NGrids, tile_size |-> t, num_layers |-> n] :
        t \in tile_sizes, n \in layers }

\* An encoder built from kw, in mode tr, with call 1 about to run on tensor
\* set 1 (and call 2, if it runs, on tensor set r2).
InitWith(kw, tr, h1, h2, r2, two, ph) ==
    /\ kwargs = kw
    /\ self = [LongNetViT(kw) EXCEPT !.training = tr]
    /\ self0 = self
    /\ phase = ph
    /\ rng = 0
    /\ heap = [c \in Calls |-> IF c = 1 THEN h1 ELSE h2]
    /\ heap0 = heap
    /\ ref = [c \in Calls |-> IF c = 1 THEN 1 ELSE r2]
    /\ frame = [c \in Calls |-> IF c = 1 \/ two THEN StartFrame ELSE IdleFrame]

\* A cell inside the grid and a cell one row past it.
FewPairs == {<<0, 0>>, <<NGrids * DefaultPatchSize, 0>>}

\* One call with every shape and every layer count: in evaluation mode with
\* every mask, in training mode without masks.
Init ==
    \E kw \in Configs({DefaultPatchSize}, 0 .. MaxLayers), tr \in BOOLEAN :
        \E h \in TensorSets({1}, 1 .. MaxQ, 1 .. MaxI, 1 .. MaxTiles, FewPairs, {NoArg}, ~tr) :
            InitWith(kw, tr, h, h, 1, FALSE, "ready")

\* One call on two tiles with every coordinate, cell size and configured tile size.
InitIndex ==
    \E kw \in Configs(TileSizes, {1}),
       h \in TensorSets({1}, {1}, {1}, {2}, CoordVals \X CoordVals,
                        {NoArg, Given(2 * DefaultPatchSize)}, FALSE) :
        InitWith(kw, FALSE, h, h, 1, FALSE, "ready")

\* Two calls, on the same tensor set or on two; in training mode one layer.
InitConc ==
    \E tr \in BOOLEAN, r2 \in Calls,
       h1 \in TensorSets({1}, {1}, {1}, {1}, {<<0, 0>>}, {NoArg}, FALSE),
       h2 \in TensorSets({1, 2}, {1}, {1}, {1}, {<<0, 0>>}, {NoArg}, FALSE) :
        \E kw \in Configs({DefaultPatchSize}, IF tr THEN {1} ELSE 1 .. MaxLayers) :
            InitWith(kw, tr, h1, h2, r2, TRUE, "ready")

\* A model built directly, or on its way through the registered factory and
\* create_model.
InitLife ==
    \E kw \in Configs({DefaultPatchSize}, 1 .. MaxLayers),
       h \in TensorSets({1}, {1}, {1}, {1}, FewPairs, {NoArg}, TRUE),
       ph \in {"constructed", "ready"} :
        InitWith(kw, TRUE, h, h, 1, FALSE, ph)

Next == \E c \in Calls : forward(c)

NextLife == gigapath_slide_enc2l512d \/ create_model \/ Next

Spec == Init /\ [][Next]_vars

SpecIndex == InitIndex /\ [][Next]_vars

SpecConc == InitConc /\ [][Next]_vars

SpecLife == InitLife /\ [][NextLife]_vars

----------------------------------------------------------------------------
\* forward as a function: what a call returns when nothing else runs, in
\* evaluation mode, on object obj with arguments a.

RECURSIVE Layers(_, _, _, _, _)
Layers(obj, a, i, contexts, querys) ==
    IF i >= obj.num_layers
    THEN querys
    ELSE LET ctx == LongNetEncoder(ParamsOf(obj, "encoder_wsi", i), contexts,
                                   a.key_padding_mask, NoArg)
             out == TransformerBlock(ParamsOf(obj, "self_attention", i),
                                     Cat(querys, a.instructs),
                                     SelfAttentionMask(a.querys.len, a.self_attention_mask),
                                     NoArg)
             q   == CrossAttention(ParamsOf(obj, "cross_attention", i),
                                   Slice(out, a.querys.len), ctx, ctx,
                                   a.key_padding_mask, NoArg)
         IN  Layers(obj, a, i + 1, ctx, q)

ForwardAlone(obj, a) ==
    LET ps  == IF a.patch_size.given THEN a.patch_size.v ELSE DefaultPatchSize
        pos == coords_to_pos(obj.slide_ngrids, a.coords, ps)
        n   == TableSize(obj.pos_embed)
    IN  IF \A t \in 1 .. Len(pos) : IndexInRange(n, pos[t])
        THEN LET q == Layers(obj, a, 0, Add(a.contexts, Gather(obj.pos_embed, pos)), a.querys)
             IN  [raised |-> FALSE, result |-> Tensor(q.len, ToBF16(q.val))]
        ELSE [raised |-> TRUE, result |-> Undefined]

----------------------------------------------------------------------------
\* Vocabulary of the properties.

G == self.slide_ngrids

\* The call has computed its position indices.
Indexed(c) == frame[c].pc \notin {"idle", "mask", "pos"}

\* The call is past the gather of line 253.
Gathered(c) == frame[c].pc \notin {"idle", "mask", "pos", "embed"}

\* The quantized cell of tile t of call c at cell size s.
Row(c, t, s) == Args(c).coords[t][1] \div s

Col(c, t, s) == Args(c).coords[t][2] \div s

InGrid(c, t, s) ==
    /\ 0 <= Row(c, t, s) /\ Row(c, t, s) < G
    /\ 0 <= Col(c, t, s) /\ Col(c, t, s) < G

Tiles(c) == 1 .. Len(Args(c).coords)

\* The entries of call c's log made by module list m.
Entries(c, m) == {k \in 1 .. Len(frame[c].log) : frame[c].log[k].mod = m}

----------------------------------------------------------------------------
\* C1: whenever the quantized cell (row, col) of a tile lies inside the grid,
\* coords_to_pos returns row * G + col, which lies in 0 .. G*G - 1; two tiles
\* in different in-grid cells get different indices; the four corner cells get
\* 0, G-1, (G-1)*G and G*G-1.
C1_InRangeIndex ==
    \A c \in Calls : Indexed(c) =>
        LET s == PatchSize(c) IN
        /\ \A t \in Tiles(c) : InGrid(c, t, s) =>
              /\ frame[c].pos[t] = Row(c, t, s) * G + Col(c, t, s)
              /\ 0 <= frame[c].pos[t] /\ frame[c].pos[t] < G * G
              /\ (Row(c, t, s) = 0 /\ Col(c, t, s) = 0) => frame[c].pos[t] = 0
              /\ (Row(c, t, s) = 0 /\ Col(c, t, s) = G - 1) => frame[c].pos[t] = G - 1
              /\ (Row(c, t, s) = G - 1 /\ Col(c, t, s) = 0) => frame[c].pos[t] = (G - 1) * G
              /\ (Row(c, t, s) = G - 1 /\ Col(c, t, s) = G - 1)
                    => frame[c].pos[t] = G * G - 1
        /\ \A t, u \in Tiles(c) :
              ( /\ InGrid(c, t, s) /\ InGrid(c, u, s)
                /\ <<Row(c, t, s), Col(c, t, s)>> # <<Row(c, u, s), Col(c, u, s)>> )
              => frame[c].pos[t] # frame[c].pos[u]

\* Two tiles in the two off-diagonal corners have been indexed.
C1_Witness ==
    /\ Indexed(1)
    /\ Row(1, 1, PatchSize(1)) = 0 /\ Col(1, 1, PatchSize(1)) = G - 1
    /\ Row(1, 2, PatchSize(1)) = G - 1 /\ Col(1, 2, PatchSize(1)) = 0
    /\ frame[1].pos = <<G - 1, (G - 1) * G>>

\* C2: a call with a tile whose quantized cell is outside the grid in either
\* axis fails at the gather; it never goes on with another cell's table entry.
C2_OutOfGridFails ==
    \A c \in Calls :
        (Gathered(c) /\ \E t \in Tiles(c) : ~InGrid(c, t, PatchSize(c)))
        => frame[c].pc = "error"

\* C3: with an instruction mask given, the mask handed to every Self-Fusion
\* block has length Q + I, ends with the caller's instruction mask, starts
\* with Q valid entries, and after the block's inversion excludes no query
\* position.
C3_SelfFusionMask ==
    \A c \in Calls : \A k \in Entries(c, "self_attention") :
        LET e    == frame[c].log[k]
            Q    == heap0[ref[c]].querys.len
            I    == heap0[ref[c]].instructs.len
            mask == heap0[ref[c]].self_attention_mask
        IN  mask.given =>
              /\ e.attention_mask.given
              /\ Len(e.attention_mask.v) = Q + I
              /\ \A p \in 1 .. I : e.attention_mask.v[Q + p] = mask.v[p]
              /\ \A p \in 1 .. Q : e.attention_mask.v[p] = 1
              /\ e.key_padding_mask.given
              /\ \A p \in 1 .. Q : e.key_padding_mask.v[p] = FALSE

\* A second-layer Self-Fusion call with two queries and a mask that pads an
\* instruction position.
C3_Witness ==
    \E k \in Entries(1, "self_attention") :
        /\ frame[1].log[k].idx = 1
        /\ Args(1).querys.len = 2
        /\ Args(1).self_attention_mask = Given(<<0, 1>>)

\* C4 as stated: in the Self-Fusion block a mask value of 0 means the
\* position is attended and a non-zero value means it is excluded.
C4_ZeroMeansAttended ==
    \A c \in Calls : \A k \in Entries(c, "self_attention") :
        LET e == frame[c].log[k]
        IN  e.attention_mask.given =>
              \A p \in 1 .. Len(e.attention_mask.v) :
                  /\ e.attention_mask.v[p] = 0 => e.key_padding_mask.v[p] = FALSE
                  /\ e.attention_mask.v[p] # 0 => e.key_padding_mask.v[p] = TRUE

\* C4 amended: in the Self-Fusion block a mask value of 0 means the position
\* is excluded from attention and a non-zero value means it is attended.
C4_ZeroMeansExcluded ==
    \A c \in Calls : \A k \in Entries(c, "self_attention") :
        LET e == frame[c].log[k]
        IN  e.attention_mask.given =>
              /\ e.key_padding_mask.given
              /\ Len(e.key_padding_mask.v) = Len(e.attention_mask.v)
              /\ \A p \in 1 .. Len(e.attention_mask.v) :
                  /\ e.attention_mask.v[p] = 0 => e.key_padding_mask.v[p] = TRUE
                  /\ e.attention_mask.v[p] # 0 => e.key_padding_mask.v[p] = FALSE

\* A Self-Fusion call whose mask has a zero and a non-zero instruction entry.
C4_Witness ==
    \E k \in Entries(1, "self_attention") :
        /\ frame[1].log[k].attention_mask.given
        /\ \E p, r \in 1 .. Len(frame[1].log[k].attention_mask.v) :
              /\ frame[1].log[k].attention_mask.v[p] = 0
              /\ frame[1].log[k].attention_mask.v[r] = 1
              /\ frame[1].log[k].key_padding_mask.v[p]
              /\ ~frame[1].log[k].key_padding_mask.v[r]

\* The query tensor a Self-Fusion call made as log entry k combines: the
\* output of the Cross-Fusion call before it, or the caller's querys.
QueryBefore(c, k) ==
    LET before == {j \in Entries(c, "cross_attention") : j < k}
    IN  IF before = {}
        THEN heap0[ref[c]].querys
        ELSE frame[c].log[CHOOSE j \in before : \A h \in before : h <= j].out

\* The log entries 3i+1, 3i+2, 3i+3 are layer i's Context Encoder, Self-Fusion
\* and Cross-Fusion calls, each fed as the pipeline prescribes.
LayerCalls(c, k) ==
    LET log == frame[c].log
        e   == log[k]
        i   == (k - 1) \div 3
        a   == heap0[ref[c]]
    IN  /\ e.idx = i
        /\ i < self.num_layers
        /\ CASE k % 3 = 1 ->
                  /\ e.mod = "encoder_wsi"
                  /\ e.x = IF i = 0
                           THEN Add(a.contexts, Gather(self0.pos_embed, frame[c].pos))
                           ELSE log[k - 3].out
             [] k % 3 = 2 ->
                  /\ e.mod = "self_attention"
                  /\ e.x = Cat(IF i = 0 THEN a.querys ELSE log[k - 2].out, a.instructs)
             [] OTHER ->
                  /\ e.mod = "cross_attention"
                  /\ e.x = Slice(log[k - 1].out, a.querys.len)
                  /\ e.key = log[k - 2].out
                  /\ e.value = log[k - 2].out

\* C5: a forward call runs layers 0 .. L-1 in increasing order, each layer
\* calling its Context Encoder, then its Self-Fusion, then its Cross-Fusion
\* block once, with no branch or early exit; the context chains through the
\* encoders (tiles plus position embedding first), Cross-Fusion reads the
\* layer's encoder output as keys and values, Self-Fusion takes the query the
\* previous Cross-Fusion produced (the caller's first), and the call returns
\* the last Cross-Fusion output (in bfloat16).
C5_LayerOrder ==
    \A c \in Calls :
        LET log == frame[c].log
            L   == self.num_layers
        IN  /\ \A k \in 1 .. Len(log) : LayerCalls(c, k)
            /\ frame[c].pc \in {"return", "done"} => Len(log) = 3 * L
            /\ frame[c].pc = "encoder_wsi" => Len(log) = 3 * frame[c].i
            /\ frame[c].pc = "self_attention" => Len(log) = 3 * frame[c].i + 1
            /\ frame[c].pc = "cross_attention" => Len(log) = 3 * frame[c].i + 2
            /\ frame[c].pc = "done" =>
                  frame[c].result =
                      LET q == IF L = 0 THEN heap0[ref[c]].querys ELSE log[3 * L].out
                      IN  Tensor(q.len, ToBF16(q.val))

\* A call over the largest number of layers has returned.
C5_Witness ==
    /\ frame[1].pc = "done"
    /\ self.num_layers = MaxLayers
    /\ Len(frame[1].log) = 3 * MaxLayers
    /\ frame[1].log[3 * MaxLayers].mod = "cross_attention"
    /\ frame[1].result.val # NaN

\* C6: in evaluation mode forward changes neither the encoder object (table,
\* parameters) nor any caller's tensor; however two calls interleave, each
\* ends as it does when run alone, and calls with equal inputs return equal
\* outputs.
C6_NoInterference ==
    ~self.training =>
        /\ self = self0
        /\ heap = heap0
        /\ \A c \in Calls :
              LET alone == ForwardAlone(self0, heap0[ref[c]])
              IN  /\ frame[c].pc = "done" =>
                        ~alone.raised /\ frame[c].result = alone.result
                  /\ frame[c].pc = "error" => alone.raised
        /\ \A c, d \in Calls :
              ( /\ frame[c].pc = "done" /\ frame[d].pc = "done"
                /\ heap0[ref[c]] = heap0[ref[d]] )
              => frame[c].result = frame[d].result

\* Two calls on the same tensors, run through two or more layers in
\* evaluation mode, have both returned.
C6_Witness ==
    /\ ~self.training
    /\ ref[1] = ref[2]
    /\ frame[1].pc = "done"
    /\ frame[2].pc = "done"
    /\ self.num_layers >= 2
    /\ frame[1].result = frame[2].result
    /\ frame[1].result.val # NaN

\* C7 as stated: after the constructor returns, nothing changes an entry of
\* the position table.
C7_TableNeverWritten == self.pos_embed = self0.pos_embed

\* C7 amended: the table starts as the sinusoidal table of a G x G grid, and
\* no step of forward or coords_to_pos changes an entry; only the factory's
\* cast and create_model's checkpoint load write it, before the model is
\* handed out.
C7_ForwardKeepsTable ==
    [][ /\ self0.pos_embed = SinCosPosEmbed(kwargs.slide_ngrids)
        /\ phase = "ready" => self'.pos_embed = self.pos_embed
        /\ self'.pos_embed # self.pos_embed => phase \in {"constructed", "factory"}
      ]_vars

\* A call has returned on a model whose table a checkpoint replaced.
C7_Witness ==
    /\ phase = "ready"
    /\ frame[1].pc = "done"
    /\ self.pos_embed # self0.pos_embed
    /\ self.pos_embed[0] = ToBF16(<<"ckpt", 0>>)

\* C8: a call that passes no cell size quantizes by the configured tile_size.
C8_ConfiguredTileSize ==
    \A c \in Calls :
        (Indexed(c) /\ ~Args(c).patch_size.given) =>
            \A t \in Tiles(c) :
                frame[c].pos[t] =
                    Row(c, t, kwargs.tile_size) * G + Col(c, t, kwargs.tile_size)

\* C9: when the context padding mask marks every tile as padding, the
\* Cross-Fusion output is the normalization of the pre-attention query alone.
C9_AllPaddedIsQueryOnly ==
    \A c \in Calls : \A k \in Entries(c, "cross_attention") :
        LET e == frame[c].log[k]
        IN  ( /\ ~self.training
              /\ e.key_padding_mask.given
              /\ AllTrue(e.key_padding_mask.v)
              /\ e.x.val # NaN )
            => e.out = LayerNorm(<<Params("cross_attention", e.idx), "norm">>, e.x)

\* C10: at every layer the Self-Fusion input is the current query followed by
\* the caller's unchanged instruction tensor; only the first Q positions of
\* its output go on (to the Cross-Fusion block), so the fused instruction
\* positions reach no later layer and not the result.
C10_InstructionsConstant ==
    \A c \in Calls :
        LET log == frame[c].log
            a   == heap0[ref[c]]
        IN  /\ Args(c).instructs = a.instructs
            /\ \A k \in Entries(c, "self_attention") :
                  /\ log[k].x = Cat(QueryBefore(c, k), a.instructs)
                  /\ log[k].x.len = a.querys.len + a.instructs.len
                  /\ log[k].out.len = a.querys.len + a.instructs.len
                  /\ frame[c].pc = "cross_attention" /\ k = Len(log) =>
                        Querys(c) = Slice(log[k].out, a.querys.len)
            /\ \A k \in Entries(c, "cross_attention") :
                  /\ k > 1
                  /\ log[k - 1].mod = "self_attention"
                  /\ log[k].x = Slice(log[k - 1].out, a.querys.len)
                  /\ log[k].x.len = a.querys.len
                  /\ log[k].out.len = a.querys.len
            /\ frame[c].pc = "done" => frame[c].result.len = a.querys.len

\* A call with two instruction tokens has run Self-Fusion twice and returned.
C10_Witness ==
    /\ frame[1].pc = "done"
    /\ Cardinality(Entries(1, "self_attention")) = 2
    /\ Args(1).instructs.len = 2
    /\ frame[1].result.val # NaN

====
